---- MODULE Spec2Model ----
(***************************************************************************)
(* The deck valuation pipeline of lspecian/mtg:                            *)
(*   - the Go deck ingester (cmd/deck-ingester) parses deck files and      *)
(*     publishes deck.card events to the topic mtg.deck-cards;             *)
(*   - the MTGJSON ingestor publishes price.updated events to mtg.prices;  *)
(*   - the Flink job DeckValueProcessor reduces the deck.card events per   *)
(*     deck in tumbling processing-time windows and publishes one          *)
(*     deck.value.calculated event per fired window to mtg.deck-values.    *)
(* Time is in seconds, money in cents.  A UUID is the pair of the process  *)
(* that drew it and the number of the draw: every draw is fresh.           *)
(***************************************************************************)
EXTENDS Integers, Sequences, FiniteSets, TLC

(***************************************************************************)
(* Bounds of the model.                                                    *)
(***************************************************************************)
MaxIngests == 2
MaxDuplicates == 1
MaxPrices == 2
MaxRestarts == 1
MaxClock == 20
MaxInputs == 3
MaxMalformed == 1
MaxSinkFailures == 1
MaxLineLen == 4

(***************************************************************************)
(* Program constants.                                                      *)
(***************************************************************************)
WindowSize == 10
NumPartitions == 3
AvgCardPrice == 500

Partitions == 1..NumPartitions

EmptyMap == [x \in {} |-> x]

Put(f, k, v) == [x \in (DOMAIN f) \cup {k} |-> IF x = k THEN v ELSE f[x]]

Remove(f, k) == [x \in (DOMAIN f) \ {k} |-> f[x]]

(***************************************************************************)
(* Inputs.  A string of the programs is a sequence of one-character        *)
(* strings.  DeckFiles are the deck files of the directory of a run of the *)
(* pipeline, PriceFeed the price records the MTGJSON feed may deliver.     *)
(***************************************************************************)
Bolt == << "B", "o", "l", "t" >>

Lotus == << "L", "o", "t", "u", "s" >>

Island == << "I" >>

DeckFiles ==
    [ alpha |-> << "#", "m", "\n", "4", " " >> \o Bolt \o << "\n", "0", " " >> \o Island
                \o << "\n", "\n", " ", "1", " ", " " >> \o Lotus \o << "\r", "\n" >>,
      beta  |-> << "/", "/", "s", "\n", "2", " " >> \o Bolt \o << "\n", "x", " ", "F" >> ]

\* The paths the ingester is given; "gamma" is a file that cannot be read.
FilePaths == (DOMAIN DeckFiles) \cup {"gamma"}

PriceFeed ==
    { [card_uuid |-> Bolt,  date |-> 2, price |-> 200],
      [card_uuid |-> Bolt,  date |-> 1, price |-> 100],
      [card_uuid |-> Lotus, date |-> 1, price |-> 5000] }

VARIABLES
    clock,           \* wall clock / Flink processing time
    files,           \* the deck directory: path -> content of the readable files
    ingested,        \* the decks and card events of the runs of the Ingester package
    decks,           \* the decks ingested so far (main's decks slice, over all runs)
    deckCardsTopic,  \* mtg.deck-cards: per partition, the log of deck.card events
    duplicates,      \* number of records the producer has written twice
    pricesTopic,     \* mtg.prices: the log of price.updated events
    offsets,         \* Flink deck-cards source: records read per partition
    priceOffset,     \* Flink prices source: records read
    prices,          \* the elements of DataStream<CardPrice> prices
    windows,         \* keyed window state: <<deckId, windowStart>> -> reduced DeckCard
    deckValues,      \* mtg.deck-values: the deck.value.calculated events
    restarts,        \* number of restarts of the Flink job
    malformed,       \* number of malformed records written to mtg.deck-cards
    jobStatus,       \* Flink job status: "RUNNING" or "FAILED"
    failures,        \* history: the exceptions that have failed the job
    priceLog,        \* history: the price.updated events the job has mapped
    windowLog,       \* history: per open window, the source records reduced into it
    emitLog,         \* history: per emitted event, its window and source records
    naming,          \* a file name and the deck names the two extractDeckName make of it
    run,             \* one run of the deck-ingester command: main's position and locals
    job              \* one run of the MTGJSON ingestion job: main's position and locals

\* The pipeline: the deck directory, the topics and the valuation job.
pipeline == << clock, files, ingested, decks, deckCardsTopic, duplicates, pricesTopic, offsets,
               priceOffset, prices, windows, deckValues, restarts, malformed,
               jobStatus, failures, priceLog, windowLog, emitLog >>

\* The programs that are followed statement by statement.
programs == << naming, run, job >>

vars == << pipeline, programs >>

\* The send failures of the sink among the exceptions so far.
sinkFailures == Cardinality({ i \in DOMAIN failures : failures[i].operator = "sink" })

\* The events of the environment so far: ingested decks, records written
\* twice, published price records, restarts of the job, malformed records
\* and failed sends of the sink.
inputs ==
    Len(decks) + duplicates + Len(pricesTopic) + restarts + malformed + sinkFailures

(***************************************************************************)
(* Deck ingester (Go).                                                     *)
(***************************************************************************)
Digits == { "0", "1", "2", "3", "4", "5", "6", "7", "8", "9" }

digit(c) ==
    CASE c = "0" -> 0 [] c = "1" -> 1 [] c = "2" -> 2 [] c = "3" -> 3 [] c = "4" -> 4
      [] c = "5" -> 5 [] c = "6" -> 6 [] c = "7" -> 7 [] c = "8" -> 8 [] c = "9" -> 9

RECURSIVE digitsValue(_)
digitsValue(s) ==
    IF s = <<>> THEN 0 ELSE 10 * digitsValue(SubSeq(s, 1, Len(s) - 1)) + digit(s[Len(s)])

unsigned(s) == IF s # <<>> /\ s[1] \in {"+", "-"} THEN Tail(s) ELSE s

\* strconv.Atoi: err == nil, and the value.  An optional sign, then decimal
\* digits, at least one.  (The range error of a number that does not fit an
\* int needs more digits than the lines here have.)
AtoiOk(s) == unsigned(s) # <<>> /\ \A i \in DOMAIN unsigned(s) : unsigned(s)[i] \in Digits

Atoi(s) ==
    IF s # <<>> /\ s[1] = "-" THEN 0 - digitsValue(unsigned(s)) ELSE digitsValue(unsigned(s))

RECURSIVE splitLines(_)
splitLines(s) ==
    IF s = <<>> THEN <<>>
    ELSE IF \E i \in DOMAIN s : s[i] = "\n"
         THEN LET i == CHOOSE i \in DOMAIN s :
                          s[i] = "\n" /\ \A j \in 1..(i - 1) : s[j] # "\n"
              IN << SubSeq(s, 1, i - 1) >> \o splitLines(SubSeq(s, i + 1, Len(s)))
         ELSE << s >>

isSpace(b) == b \in { " ", "\t", "\n", "\r" }

\* A trimSpace that trims nothing.
trimSpaceNot(s) == s

RECURSIVE trimSpace(_)
trimSpace(s) ==
    IF s # <<>> /\ isSpace(s[1]) THEN trimSpace(Tail(s))
    ELSE IF s # <<>> /\ isSpace(s[Len(s)]) THEN trimSpace(SubSeq(s, 1, Len(s) - 1))
    ELSE s

hasPrefix(s, prefix) == Len(s) >= Len(prefix) /\ SubSeq(s, 1, Len(prefix)) = prefix

\* strings.SplitN(s, sep, 2) for a separator of one character
SplitN(s, sep) ==
    IF \E i \in DOMAIN s : s[i] = sep
    THEN LET i == CHOOSE i \in DOMAIN s : s[i] = sep /\ \A j \in 1..(i - 1) : s[j] # sep
         IN << SubSeq(s, 1, i - 1), SubSeq(s, i + 1, Len(s)) >>
    ELSE << s >>

isCommentOrEmpty(line) ==
    line = <<>> \/ hasPrefix(line, << "/", "/" >>) \/ hasPrefix(line, << "#" >>)

\* A line loop that gives up the rest of the file at a line it does not parse.
RECURSIVE parseLinesAborts(_)
parseLinesAborts(lines) ==
    IF lines = <<>> THEN <<>>
    ELSE LET line  == trimSpace(Head(lines))
             parts == SplitN(line, " ")
         IN IF isCommentOrEmpty(line) THEN parseLinesAborts(Tail(lines))
            ELSE IF Len(parts) = 2 /\ AtoiOk(parts[1]) /\ Atoi(parts[1]) > 0
                    /\ trimSpace(parts[2]) # <<>>
                 THEN << [quantity |-> Atoi(parts[1]), name |-> trimSpace(parts[2])] >>
                      \o parseLinesAborts(Tail(lines))
                 ELSE <<>>

\* The line loop of ingestDeckFile
RECURSIVE parseLines(_)
parseLines(lines) ==
    IF lines = <<>> THEN <<>>
    ELSE LET line  == trimSpace(Head(lines))
             parts == SplitN(line, " ")
             rest  == parseLines(Tail(lines))
         IN IF isCommentOrEmpty(line) THEN rest
            ELSE IF Len(parts) = 2 /\ AtoiOk(parts[1]) /\ Atoi(parts[1]) > 0
                    /\ trimSpace(parts[2]) # <<>>
                 THEN << [quantity |-> Atoi(parts[1]), name |-> trimSpace(parts[2])] >>
                      \o rest
                 ELSE rest

RECURSIVE sumQuantity(_)
sumQuantity(cards) ==
    IF cards = <<>> THEN 0 ELSE Head(cards).quantity + sumQuantity(Tail(cards))

\* filepath.Base of the paths of the deck directory: one file matched by
\* "*.deck", one by "*.deck.txt", and one that cannot be read.
Base(filePath) ==
    CASE filePath = "alpha" -> << "a", "l", "p", "h", "a", ".", "d", "e", "c", "k" >>
      [] filePath = "beta" -> << "b", "e", "t", "a", ".", "d", "e", "c", "k", ".", "t", "x", "t" >>
      [] filePath = "gamma" -> << "g", "a", "m", "m", "a", ".", "d", "e", "c", "k" >>

lowerCase ==
    << "a", "b", "c", "d", "e", "f", "g", "h", "i", "j", "k", "l", "m",
       "n", "o", "p", "q", "r", "s", "t", "u", "v", "w", "x", "y", "z" >>

upperCase ==
    << "A", "B", "C", "D", "E", "F", "G", "H", "I", "J", "K", "L", "M",
       "N", "O", "P", "Q", "R", "S", "T", "U", "V", "W", "X", "Y", "Z" >>

\* r - 32 for r in 'a'..'z', and unicode.ToTitle on these characters
toUpper(c) ==
    IF \E i \in DOMAIN lowerCase : lowerCase[i] = c
    THEN upperCase[CHOOSE i \in DOMAIN lowerCase : lowerCase[i] = c]
    ELSE c

\* The index from 0 of the last occurrence of substr in s, or -1.
lastIndex(s, substr) ==
    LET hits == { i \in 0..(Len(s) - Len(substr)) :
                    SubSeq(s, i + 1, i + Len(substr)) = substr }
    IN IF hits = {} THEN -1 ELSE CHOOSE i \in hits : \A j \in hits : j <= i

\* replaceAll for an old and a new of one character each
replaceAll(s, old, new) == [ i \in DOMAIN s |-> IF s[i] = old THEN new ELSE s[i] ]

RECURSIVE titleCaseFrom(_, _)
titleCaseFrom(s, wasSpace) ==
    IF s = <<>> THEN <<>>
    ELSE IF Head(s) = " " THEN << " " >> \o titleCaseFrom(Tail(s), TRUE)
    ELSE IF wasSpace THEN << toUpper(Head(s)) >> \o titleCaseFrom(Tail(s), FALSE)
    ELSE << Head(s) >> \o titleCaseFrom(Tail(s), FALSE)

titleCase(s) == titleCaseFrom(s, TRUE)

dotDeck == << ".", "d", "e", "c", "k" >>

dotTxt == << ".", "t", "x", "t" >>

\* What extractDeckName makes of the base name of a file.
deckNameOf(base) ==
    LET cut1 == IF lastIndex(base, dotDeck) >= 0
                THEN SubSeq(base, 1, lastIndex(base, dotDeck)) ELSE base
        cut2 == IF lastIndex(cut1, dotTxt) >= 0
                THEN SubSeq(cut1, 1, lastIndex(cut1, dotTxt)) ELSE cut1
    IN titleCase(replaceAll(replaceAll(cut2, "-", " "), "_", " "))

\* The names of the files of the deck directory, worked out once.
deckNames == [ filePath \in FilePaths |-> deckNameOf(Base(filePath)) ]

extractDeckName(filePath) == deckNames[filePath]

\* uuid.New() / UUID.randomUUID(): the n-th draw of a process.
uuid(process, n) == << process, n >>

\* The number of UUIDs the deck ingester has drawn: per deck its id, the id
\* of its deck.ingested event and one event id per card.
RECURSIVE uuidsDrawn(_)
uuidsDrawn(ds) ==
    IF ds = <<>> THEN 0 ELSE 2 + Len(Head(ds).cards) + uuidsDrawn(Tail(ds))

\* An ingestDeckFile that takes the number of entries for the total.
ingestDeckFileMiscounts(filePath, id, now) ==
    LET cards == parseLines(splitLines(files[filePath]))
    IN [ id |-> id,
         name |-> extractDeckName(filePath),
         file_path |-> filePath,
         cards |-> cards,
         total_cards |-> Len(cards),
         unique_cards |-> Len(cards),
         ingested_at |-> now ]

ingestDeckFile(filePath, id, now) ==
    LET cards == parseLines(splitLines(files[filePath]))
    IN [ id |-> id,
         name |-> extractDeckName(filePath),
         file_path |-> filePath,
         cards |-> cards,
         total_cards |-> sumQuantity(cards),
         unique_cards |-> Len(cards),
         ingested_at |-> now ]

createDeckCardEvent(deckId, deckName, card, eventId, now) ==
    [ eventType |-> "deck.card",
      eventId |-> eventId,
      timestamp |-> now,
      source |-> "deck-ingester",
      data |-> [ deck_id |-> deckId, deck_name |-> deckName,
                 card_name |-> card.name, quantity |-> card.quantity ] ]

\* The partitions a keyless record produced with kafka.PartitionAny may land
\* on.  Partitions are interchangeable, so of the partitions that are still
\* empty only the lowest-numbered one is listed.
partitionAny(topic) ==
    { p \in Partitions : \A q \in Partitions : (q < p) => topic[q] # <<>> }

\* The publish loop over the cards of a deck: parts[i] is the partition the
\* i-th card event lands on, drawn + i the number of its event id.
RECURSIVE publishCards(_, _, _, _, _, _)
publishCards(topic, deck, parts, i, drawn, now) ==
    IF i > Len(deck.cards) THEN topic
    ELSE publishCards(
            [topic EXCEPT ![parts[i]] =
                Append(@, createDeckCardEvent(deck.id, deck.name, deck.cards[i],
                                              uuid("deck-ingester", drawn + i), now))],
            deck, parts, i + 1, drawn, now)

\* One deck of a run of the ingester: ingestDeckFile draws the deck id,
\* createDeckEvent the id of the deck.ingested event (topic mtg.decks, which
\* the valuation job does not read), createDeckCardEvent one id per card.
IngestDeck(filePath) ==
    /\ Len(decks) < MaxIngests
    /\ inputs < MaxInputs
    /\ IF filePath \notin DOMAIN files
       THEN UNCHANGED << decks, deckCardsTopic >>
       ELSE \E drawn \in {uuidsDrawn(decks)} :
            \E deck \in {ingestDeckFile(filePath, uuid("deck-ingester", drawn + 1), clock)} :
               /\ decks' = Append(decks, deck)
               /\ \E parts \in [1..Len(deck.cards) -> Partitions] :
                     /\ \A i \in DOMAIN parts :
                           parts[i] \in partitionAny(
                               publishCards(deckCardsTopic,
                                            [deck EXCEPT !.cards = SubSeq(@, 1, i - 1)],
                                            parts, 1, drawn + 2, clock))
                     /\ deckCardsTopic' =
                           publishCards(deckCardsTopic, deck, parts, 1, drawn + 2, clock)
    /\ UNCHANGED programs
    /\ UNCHANGED << clock, files, ingested, duplicates, pricesTopic, offsets,
                    priceOffset, prices, windows, deckValues, restarts, malformed,
                    jobStatus, failures, priceLog, windowLog, emitLog >>

\* At-least-once production: a record whose acknowledgement was lost is
\* written again by the producer's retry.
ProducerRetry(p, i) ==
    /\ duplicates < MaxDuplicates
    /\ inputs < MaxInputs
    /\ i \in 1..Len(deckCardsTopic[p])
    /\ deckCardsTopic' = [deckCardsTopic EXCEPT ![p] = Append(@, @[i])]
    /\ duplicates' = duplicates + 1
    /\ UNCHANGED programs
    /\ UNCHANGED << files, ingested, clock, decks, pricesTopic, offsets, priceOffset, prices,
                    windows, deckValues, restarts, priceLog, windowLog, emitLog,
                    malformed, jobStatus, failures >>

(***************************************************************************)
(* Package deck (internal/deck/ingester.go) and the program that tries it. *)
(***************************************************************************)
\* bufio.ScanLines: the lines without their end-of-line marker "\n" or
\* "\r\n"; an empty last line is not a line.
dropCR(line) ==
    IF line # <<>> /\ line[Len(line)] = "\r" THEN SubSeq(line, 1, Len(line) - 1) ELSE line

scanLines(s) == [ i \in DOMAIN splitLines(s) |-> dropCR(splitLines(s)[i]) ]

\* A TrimSpace that leaves the white space where it is.
TrimSpaceNot(s) == s

\* strings.TrimSpace on the characters of the lines here
TrimSpace(s) == trimSpace(s)

\* strings.TrimSuffix
TrimSuffix(s, suffix) ==
    IF Len(s) >= Len(suffix) /\ SubSeq(s, Len(s) - Len(suffix) + 1, Len(s)) = suffix
    THEN SubSeq(s, 1, Len(s) - Len(suffix))
    ELSE s

\* strings.Title's isSeparator on ASCII: letters, digits and the underscore
\* are no separators, every other character is.
isSeparator(c) ==
    /\ \A i \in DOMAIN lowerCase : c # lowerCase[i] /\ c # upperCase[i]
    /\ c \notin Digits
    /\ c # "_"

\* strings.Title: the letter after a separator, and the first, in upper case
RECURSIVE TitleFrom(_, _)
TitleFrom(s, prev) ==
    IF s = <<>> THEN <<>>
    ELSE << IF isSeparator(prev) THEN toUpper(Head(s)) ELSE Head(s) >>
         \o TitleFrom(Tail(s), Head(s))

Title(s) == TitleFrom(s, " ")

\* What extractDeckName of package deck makes of the base name of a file.
deckDeckNameOf(base) ==
    Title(replaceAll(replaceAll(TrimSuffix(TrimSuffix(base, dotDeck), dotTxt),
                                "-", " "), "_", " "))

deckDeckNames == [ filePath \in FilePaths |-> deckDeckNameOf(Base(filePath)) ]

\* extractDeckName of package deck
deckExtractDeckName(filePath) == deckDeckNames[filePath]

\* The number of leading characters of s that are in the class.
RECURSIVE leading(_, _)
leading(s, class) ==
    IF s # <<>> /\ s[1] \in class THEN 1 + leading(Tail(s), class) ELSE 0

\* cardRegex.FindStringSubmatch(line) for `^(\d+)\s+(.+)$` on a line without
\* "\n": no match, or the line, the digits and the rest.  \d+ takes all the
\* leading digits, \s+ all the white space after them but for the last
\* character of the line, which it leaves to .+
cardRegex(line) ==
    LET n == leading(line, Digits)
        m == leading(SubSeq(line, n + 1, Len(line)), { " ", "\t", "\r", "\f" })
        k == IF n + m = Len(line) THEN m - 1 ELSE m
    IN IF n >= 1 /\ k >= 1
       THEN << line, SubSeq(line, 1, n), SubSeq(line, n + k + 1, Len(line)) >>
       ELSE <<>>

\* The scanner loop of Ingester.IngestFile
RECURSIVE scanCards(_)
scanCards(lines) ==
    IF lines = <<>> THEN <<>>
    ELSE LET line    == TrimSpace(Head(lines))
             matches == cardRegex(line)
             rest    == scanCards(Tail(lines))
         IN IF isCommentOrEmpty(line) THEN rest
            ELSE IF Len(matches) = 3
                 THEN IF ~AtoiOk(matches[2]) THEN rest
                      ELSE << [quantity |-> Atoi(matches[2]),
                               name |-> TrimSpace(matches[3])] >> \o rest
                 ELSE rest

IngestFile(filePath, id, now) ==
    LET cards == scanCards(scanLines(files[filePath]))
    IN [ id |-> id,
         name |-> deckExtractDeckName(filePath),
         file_path |-> filePath,
         cards |-> cards,
         total_cards |-> sumQuantity(cards),
         unique_cards |-> Len(cards),
         ingested_at |-> now ]

CreateDeckCardEvents(deck, drawn, now) ==
    [ i \in DOMAIN deck.cards |->
        [ eventType |-> "deck.card",
          eventId |-> uuid("test-ingester", drawn + i),
          timestamp |-> now,
          source |-> "deck-ingester",
          data |-> [ deck_id |-> deck.id, deck_name |-> deck.name,
                     card_name |-> deck.cards[i].name,
                     quantity |-> deck.cards[i].quantity ] ] ]

\* The UUIDs the runs of the test program have drawn.
RECURSIVE testUuidsDrawn(_)
testUuidsDrawn(runs) ==
    IF runs = <<>> THEN 0
    ELSE 2 + Len(Head(runs).deck.cards) + testUuidsDrawn(Tail(runs))

\* The test program on a directory that holds the one file: IngestDirectory
\* skips a file that cannot be opened; the deck and its card events are
\* printed.
TestIngest(filePath) ==
    /\ Len(ingested) < MaxIngests
    /\ IF filePath \notin DOMAIN files
       THEN UNCHANGED ingested
       ELSE \E drawn \in {testUuidsDrawn(ingested)} :
            \E deck \in {IngestFile(filePath, uuid("test-ingester", drawn + 1), clock)} :
               ingested' = Append(ingested,
                   [ deck |-> deck,
                     cardEvents |-> CreateDeckCardEvents(deck, drawn + 2, clock) ])
    /\ UNCHANGED programs
    /\ UNCHANGED << clock, files, decks, deckCardsTopic, duplicates, pricesTopic,
                    offsets, priceOffset, prices, windows, deckValues, restarts,
                    malformed, jobStatus, failures, priceLog, windowLog, emitLog >>

\* The deck.card records another producer of mtg.deck-cards may write that
\* the job's parser does not expect: one without a deck_id, and one of an
\* ingested deck without a quantity.
malformedRecords ==
    { [ eventType |-> "deck.card", source |-> "other-producer",
        data |-> [ deck_name |-> extractDeckName("alpha"), card_name |-> Bolt, quantity |-> 1 ] ] }
    \cup
    { [ eventType |-> "deck.card", source |-> "other-producer",
        data |-> [ deck_id |-> decks[d].id, deck_name |-> decks[d].name,
                   card_name |-> Bolt ] ] : d \in DOMAIN decks }

PublishMalformed(value, p) ==
    /\ malformed < MaxMalformed
    /\ inputs < MaxInputs
    /\ value \in malformedRecords
    /\ p \in partitionAny(deckCardsTopic)
    /\ deckCardsTopic' = [deckCardsTopic EXCEPT ![p] = Append(@, value)]
    /\ malformed' = malformed + 1
    /\ UNCHANGED programs
    /\ UNCHANGED << files, ingested, clock, decks, duplicates, pricesTopic, offsets, priceOffset,
                    prices, windows, deckValues, restarts, jobStatus, failures,
                    priceLog, windowLog, emitLog >>

(***************************************************************************)
(* MTGJSON ingestor: Producer.PublishPrice.  Of the envelope only the      *)
(* fields the valuation job can read are kept.                             *)
(***************************************************************************)
\* price.(map[string]interface{}): main hands PublishPrice the PriceData
\* structs of FetchPrices, which are not maps.
isPriceMap(price) == FALSE

\* time.Now().Format("2006-01-02"): the day of an instant
SecondsPerDay == 86400

dayOf(now) == now \div SecondsPerDay

\* The key of the message: of a map with a card_uuid the card and the day,
\* of anything else the instant to the second.
priceKey(price, now) ==
    IF isPriceMap(price) /\ "card_uuid" \in DOMAIN price
    THEN << "price", price.card_uuid, dayOf(now) >>
    ELSE << "price", now >>

PublishPrice(price) ==
    /\ Len(pricesTopic) < MaxPrices
    /\ inputs < MaxInputs
    /\ pricesTopic' = Append(pricesTopic,
            [ eventType |-> "price.updated", source |-> "mtgjson",
              key |-> priceKey(price, clock), data |-> price ])
    /\ UNCHANGED programs
    /\ UNCHANGED << files, ingested, clock, decks, deckCardsTopic, duplicates, offsets, priceOffset,
                    prices, windows, deckValues, restarts, priceLog, windowLog,
                    emitLog,
                    malformed, jobStatus, failures >>

(***************************************************************************)
(* Flink job DeckValueProcessor.                                           *)
(***************************************************************************)
DeckCard(deckId, deckName, cardName, quantity) ==
    [ deckId |-> deckId, deckName |-> deckName, cardName |-> cardName,
      quantity |-> quantity ]

CardPrice(cardId, price) == [ cardId |-> cardId, price |-> price ]

DeckValue(deckId, deckName, totalCards, totalValue, timestamp) ==
    [ deckId |-> deckId, deckName |-> deckName, totalCards |-> totalCards,
      totalValue |-> totalValue, timestamp |-> timestamp ]

\* MapFunction<String, DeckCard>: data.get(field) is null for a field the
\* record lacks, and asText() / asInt() on it throws NullPointerException.
parseDeckCardThrows(value) ==
    \E field \in {"deck_id", "deck_name", "card_name", "quantity"} :
        field \notin DOMAIN value.data

\* MapFunction<String, DeckCard>.  cardName is the list of the names that
\* reduce joins with ",": it starts with one name.
parseDeckCard(value) ==
    DeckCard(value.data.deck_id, value.data.deck_name,
             << value.data.card_name >>, value.data.quantity)

\* MapFunction<String, CardPrice>
parseCardPrice(value) ==
    CardPrice(value.data.card_uuid,
              IF "price" \in DOMAIN value.data THEN value.data.price ELSE 0)

\* A reduce that keeps the quantity of the element that arrived last.
reduceKeepsLast(card1, card2) ==
    [ deckId |-> card1.deckId, deckName |-> card1.deckName,
      cardName |-> card1.cardName \o card2.cardName, quantity |-> card2.quantity ]

\* A reduce that writes the arriving element over what the window held:
\* the update before it is lost.
reduceLosesUpdate(card1, card2) == card2

\* ReduceFunction<DeckCard>.reduce
reduce(card1, card2) ==
    DeckCard(card1.deckId, card1.deckName, card1.cardName \o card2.cardName,
             card1.quantity + card2.quantity)

\* A valuation that takes the 0.0 of a price event without a price.
estimatedValueZero(aggregated) == aggregated.quantity * 0

estimatedValue(aggregated) == aggregated.quantity * AvgCardPrice

\* A valuation that takes the price of the price event mapped last.
mapDeckValuePriced(aggregated, now) ==
    DeckValue(aggregated.deckId, aggregated.deckName, aggregated.quantity,
              aggregated.quantity
                 * (IF prices = <<>> THEN AvgCardPrice ELSE prices[Len(prices)].price),
              now)

\* MapFunction<DeckCard, DeckValue>
mapDeckValue(aggregated, now) ==
    DeckValue(aggregated.deckId, aggregated.deckName, aggregated.quantity,
              estimatedValue(aggregated), now)

\* MapFunction<DeckValue, String>
deckValueJson(value, eventId, now) ==
    [ eventType |-> "deck.value.calculated",
      eventId |-> eventId,
      timestamp |-> now,
      source |-> "flink-deck-processor",
      data |-> [ deck_id |-> value.deckId, deck_name |-> value.deckName,
                 total_cards |-> value.totalCards, total_value |-> value.totalValue,
                 calculated_at |-> value.timestamp ] ]

\* A window assigner that puts every element into the window of the epoch.
windowStartEpoch(t) == t - t

\* TumblingProcessingTimeWindows.of(Time.seconds(10)): the window of an
\* element is the window of the processing time at which it is assigned.
windowStart(t) == t - (t % WindowSize)

\* What a last-write-wins table over the mapped price events would hold for
\* an item: no price, or the price of the event with the greatest date, among
\* equal dates the one mapped last.
latestEntry(log, item) ==
    LET idx == { i \in DOMAIN log : log[i].data.card_uuid = item }
    IN { log[i].data.price : i \in
            { i \in idx : \A j \in idx :
                \/ log[j].data.date < log[i].data.date
                \/ (log[j].data.date = log[i].data.date /\ j <= i) } }

ProcessPrice ==
    /\ jobStatus = "RUNNING"
    /\ priceOffset < Len(pricesTopic)
    /\ LET value == pricesTopic[priceOffset + 1]
       IN /\ prices' = Append(prices, parseCardPrice(value))
          /\ priceLog' = Append(priceLog, value)
    /\ priceOffset' = priceOffset + 1
    /\ UNCHANGED programs
    /\ UNCHANGED << files, ingested, clock, decks, deckCardsTopic, duplicates, pricesTopic, offsets,
                    windows, deckValues, restarts, windowLog, emitLog,
                    malformed, jobStatus, failures >>

\* An exception in an operator fails the job; its window state is gone.
fail(operator, at) ==
    /\ jobStatus' = "FAILED"
    /\ failures' = Append(failures, [ operator |-> operator, at |-> at ])
    /\ windows' = EmptyMap
    /\ windowLog' = EmptyMap

ProcessDeckCard(p) ==
    /\ jobStatus = "RUNNING"
    /\ offsets[p] < Len(deckCardsTopic[p])
    /\ LET value == deckCardsTopic[p][offsets[p] + 1]
       IN IF parseDeckCardThrows(value)
          THEN /\ fail("map", << p, offsets[p] + 1 >>)
               /\ UNCHANGED offsets
          ELSE LET card == parseDeckCard(value)
                   key  == << card.deckId, windowStart(clock) >>
                   rec  == [ partition |-> p, offset |-> offsets[p] + 1,
                             price |-> latestEntry(priceLog, value.data.card_name) ]
               IN /\ windows' = Put(windows, key,
                                    IF key \in DOMAIN windows
                                    THEN reduce(windows[key], card) ELSE card)
                  /\ windowLog' = Put(windowLog, key,
                                      IF key \in DOMAIN windowLog
                                      THEN windowLog[key] \cup {rec} ELSE {rec})
                  /\ offsets' = [offsets EXCEPT ![p] = @ + 1]
                  /\ UNCHANGED << jobStatus, failures >>
    /\ UNCHANGED programs
    /\ UNCHANGED << files, ingested, clock, decks, deckCardsTopic, duplicates, pricesTopic,
                    priceOffset, prices, deckValues, restarts, malformed, priceLog,
                    emitLog >>

\* A trigger that fires without purging the window.
FireWindowKeepsState(key, delivered) ==
    /\ jobStatus = "RUNNING"
    /\ key \in DOMAIN windows
    /\ clock >= key[2] + WindowSize
    /\ delivered
    /\ deckValues' = Append(deckValues,
            deckValueJson(mapDeckValue(windows[key], clock),
                          uuid("flink-deck-processor", Len(deckValues) + 1), clock))
    /\ emitLog' = Append(emitLog, [ key |-> key, records |-> windowLog[key] ])
    /\ UNCHANGED programs
    /\ UNCHANGED << files, ingested, clock, decks, deckCardsTopic, duplicates, pricesTopic, offsets,
                    priceOffset, prices, windows, restarts, malformed, jobStatus,
                    failures, priceLog, windowLog >>

\* The processing-time timer of a window fires once the clock has reached
\* the end of the window: the window is purged and its result is mapped,
\* serialized and handed to the sink.  delivered tells whether the sink's
\* producer gets the record onto mtg.deck-values; a failed send is thrown
\* in the sink's task, the job has no handler for it.
FireWindow(key, delivered) ==
    /\ jobStatus = "RUNNING"
    /\ key \in DOMAIN windows
    /\ clock >= key[2] + WindowSize
    /\ IF delivered
       THEN /\ deckValues' = Append(deckValues,
                    deckValueJson(mapDeckValue(windows[key], clock),
                                  uuid("flink-deck-processor", Len(deckValues) + 1),
                                  clock))
            /\ emitLog' = Append(emitLog, [ key |-> key, records |-> windowLog[key] ])
            /\ windows' = Remove(windows, key)
            /\ windowLog' = Remove(windowLog, key)
            /\ UNCHANGED << jobStatus, failures >>
       ELSE /\ sinkFailures < MaxSinkFailures
            /\ inputs < MaxInputs
            /\ fail("sink", key)
            /\ UNCHANGED << deckValues, emitLog >>
    /\ UNCHANGED programs
    /\ UNCHANGED << files, ingested, clock, decks, deckCardsTopic, duplicates, pricesTopic, offsets,
                    priceOffset, prices, restarts, malformed, priceLog >>

\* The job stops and is started again: it has failed, or it is cancelled
\* while running (`flink cancel`, the one way the repository stops it; main
\* installs no shutdown hook), and `flink run` submits it anew.  No
\* checkpointing is enabled, cancelling takes no savepoint and the
\* source commits no offsets, so the window state is gone and the deck-cards
\* source starts again at OffsetResetStrategy.EARLIEST; the prices source
\* starts at OffsetsInitializer.latest().
Restart ==
    /\ restarts < MaxRestarts
    /\ inputs < MaxInputs
    /\ restarts' = restarts + 1
    /\ jobStatus' = "RUNNING"
    /\ windows' = EmptyMap
    /\ windowLog' = EmptyMap
    /\ offsets' = [p \in Partitions |-> 0]
    /\ priceOffset' = Len(pricesTopic)
    /\ UNCHANGED programs
    /\ UNCHANGED << files, ingested, clock, decks, deckCardsTopic, duplicates, pricesTopic, prices,
                    deckValues, malformed, failures, priceLog, emitLog >>

\* Time passes: the clock reaches the first instant of the next window.
Tick ==
    /\ clock < MaxClock
    /\ clock' = windowStart(clock) + WindowSize
    /\ UNCHANGED programs
    /\ UNCHANGED << files, ingested, decks, deckCardsTopic, duplicates, pricesTopic, offsets,
                    priceOffset, prices, windows, deckValues, restarts, priceLog,
                    windowLog, emitLog,
                    malformed, jobStatus, failures >>

(***************************************************************************)
(* The programs at rest: nothing named, no run of the deck-ingester        *)
(* command and none of the ingestion job under way.                        *)
(***************************************************************************)
noNaming == [ base |-> <<>>, names |-> <<>> ]

noRun == [ pc |-> "exit" ]

noJob == [ pc |-> "exit" ]

Init ==
    /\ clock = 0
    /\ files = DeckFiles
    /\ ingested = <<>>
    /\ decks = <<>>
    /\ deckCardsTopic = [p \in Partitions |-> <<>>]
    /\ duplicates = 0
    /\ pricesTopic = <<>>
    /\ offsets = [p \in Partitions |-> 0]
    /\ priceOffset = 0
    /\ prices = <<>>
    /\ windows = EmptyMap
    /\ deckValues = <<>>
    /\ restarts = 0
    /\ malformed = 0
    /\ jobStatus = "RUNNING"
    /\ failures = <<>>
    /\ priceLog = <<>>
    /\ windowLog = EmptyMap
    /\ emitLog = <<>>
    /\ naming = noNaming
    /\ run = noRun
    /\ job = noJob

Ingest == \E filePath \in FilePaths : IngestDeck(filePath)

Retry == \E p \in Partitions : \E i \in 1..Len(deckCardsTopic[p]) : ProducerRetry(p, i)

Publish == \E price \in PriceFeed : PublishPrice(price)

Consume == \E p \in Partitions : ProcessDeckCard(p)

Fire == \E key \in DOMAIN windows : \E delivered \in BOOLEAN : FireWindow(key, delivered)

Poison ==
    \E value \in malformedRecords : \E p \in Partitions : PublishMalformed(value, p)

Next ==
    \/ Ingest
    \/ Retry
    \/ Publish
    \/ Poison
    \/ ProcessPrice
    \/ Consume
    \/ Fire
    \/ Restart
    \/ Tick

Spec == Init /\ [][Next]_vars

(***************************************************************************)
(* The two parsers on every deck file of three lines whose middle line is  *)
(* any line of at most MaxLineLen characters of the alphabet.              *)
(***************************************************************************)
Alphabet == { "0", "1", "-", "+", " ", "\t", "a", "b", "B", "#", "/" }

Lines == UNION { [1..n -> Alphabet] : n \in 0..MaxLineLen }

firstLine == << "2", " ", "b" >>

lastLine == << "1", "0", " ", "a", " ", "b" >>

NormalizerFiles ==
    { [ alpha |-> firstLine \o << "\n" >> \o line \o << "\r", "\n" >> \o lastLine ] :
        line \in Lines }

NormalizerInit ==
    /\ files \in NormalizerFiles
    /\ clock = 0
    /\ ingested = <<>>
    /\ decks = <<>>
    /\ deckCardsTopic = [p \in Partitions |-> <<>>]
    /\ duplicates = 0
    /\ pricesTopic = <<>>
    /\ offsets = [p \in Partitions |-> 0]
    /\ priceOffset = 0
    /\ prices = <<>>
    /\ windows = EmptyMap
    /\ deckValues = <<>>
    /\ restarts = 0
    /\ malformed = 0
    /\ jobStatus = "RUNNING"
    /\ failures = <<>>
    /\ priceLog = <<>>
    /\ windowLog = EmptyMap
    /\ emitLog = <<>>
    /\ naming = noNaming
    /\ run = noRun
    /\ job = noJob

Try == \E filePath \in FilePaths : TestIngest(filePath)

NormalizerNext ==
    \/ (decks = <<>> /\ Ingest)
    \/ (ingested = <<>> /\ Try)

NormalizerSpec == NormalizerInit /\ [][NormalizerNext]_vars

(***************************************************************************)
(* Specification of the deck names: a file name the ingesters match, and   *)
(* what extractDeckName of the command and of package deck make of it.     *)
(***************************************************************************)
MaxStemLen == 3

StemAlphabet == { "a", "1", "-", "_", "." }

Stems == UNION { [1..n -> StemAlphabet] : n \in 0..MaxStemLen }

\* filepath.Glob of "*.deck" and of "*.deck.txt"
FileNames == { stem \o dotDeck : stem \in Stems } \cup { stem \o dotDeck \o dotTxt : stem \in Stems }

NamesInit ==
    /\ naming \in { [ base |-> base, names |-> <<>> ] : base \in FileNames }
    /\ run = noRun
    /\ job = noJob
    /\ clock = 0
    /\ files = DeckFiles
    /\ ingested = <<>>
    /\ decks = <<>>
    /\ deckCardsTopic = [p \in Partitions |-> <<>>]
    /\ duplicates = 0
    /\ pricesTopic = <<>>
    /\ offsets = [p \in Partitions |-> 0]
    /\ priceOffset = 0
    /\ prices = <<>>
    /\ windows = EmptyMap
    /\ deckValues = <<>>
    /\ restarts = 0
    /\ malformed = 0
    /\ jobStatus = "RUNNING"
    /\ failures = <<>>
    /\ priceLog = <<>>
    /\ windowLog = EmptyMap
    /\ emitLog = <<>>

\* Both functions are applied to the file name.
Derive ==
    /\ naming.names = <<>>
    /\ naming' = [naming EXCEPT !.names = << deckNameOf(naming.base),
                                             deckDeckNameOf(naming.base) >>]
    /\ UNCHANGED << run, job >>
    /\ UNCHANGED pipeline

NamesNext == Derive

NamesSpec == NamesInit /\ [][NamesNext]_vars

(***************************************************************************)
(* Specification of one run of the deck-ingester command: the files of the *)
(* directory are ingested in the order of the listing, and unless the run  *)
(* is a dry run a producer is created and the deck and card events are     *)
(* produced.  run.produced holds the records producer.Produce accepted, in *)
(* the order of the calls; run.failed the events whose publishEvent        *)
(* returned an error, as << deck, card >> with card 0 for the deck event.  *)
(***************************************************************************)
MaxSendFailures == 2

\* filepath.Glob lists in lexical order: the "*.deck" files, then the
\* "*.deck.txt" files appended.
Listings ==
    { SelectSeq(<< "alpha", "gamma", "beta" >>, LAMBDA filePath : filePath \in present) :
        present \in SUBSET FilePaths }

createDeckEvent(deck, eventId, now) ==
    [ eventType |-> "deck.ingested",
      eventId |-> eventId,
      timestamp |-> now,
      source |-> "deck-ingester",
      data |-> deck ]

IngesterInit ==
    /\ run \in { [ pc |-> "ingest", dryRun |-> dryRun, listing |-> listing, f |-> 1,
                   decks |-> <<>>, drawn |-> 0, printed |-> <<>>,
                   producer |-> "none", produced |-> <<>>, failed |-> {},
                   d |-> 1, c |-> 0, publishedCount |-> 0, cardEventCount |-> 0,
                   flushed |-> FALSE ] :
                 dryRun \in BOOLEAN, listing \in Listings }
    /\ naming = noNaming
    /\ job = noJob
    /\ clock = 0
    /\ files = DeckFiles
    /\ ingested = <<>>
    /\ decks = <<>>
    /\ deckCardsTopic = [p \in Partitions |-> <<>>]
    /\ duplicates = 0
    /\ pricesTopic = <<>>
    /\ offsets = [p \in Partitions |-> 0]
    /\ priceOffset = 0
    /\ prices = <<>>
    /\ windows = EmptyMap
    /\ deckValues = <<>>
    /\ restarts = 0
    /\ malformed = 0
    /\ jobStatus = "RUNNING"
    /\ failures = <<>>
    /\ priceLog = <<>>
    /\ windowLog = EmptyMap
    /\ emitLog = <<>>

\* One turn of the loop over the files: a file that cannot be read is
\* logged and skipped.
IngestListed ==
    /\ run.pc = "ingest"
    /\ run.f <= Len(run.listing)
    /\ LET filePath == run.listing[run.f]
       IN IF filePath \notin DOMAIN files
          THEN run' = [run EXCEPT !.f = @ + 1]
          ELSE run' = [run EXCEPT
                   !.f = @ + 1,
                   !.drawn = @ + 1,
                   !.decks = Append(@, ingestDeckFile(filePath,
                                           uuid("deck-ingester", run.drawn + 1), clock))]
    /\ UNCHANGED << naming, job >>
    /\ UNCHANGED pipeline

\* A run that goes on to the producer whatever the flag.
dryRunFallsThrough(dryRun) == FALSE

\* if *dryRun { ... return }
dryRunBranch(dryRun) == dryRun

\* The dry run prints the decks and returns.
DryRunPrint ==
    /\ run.pc = "ingest"
    /\ run.f > Len(run.listing)
    /\ dryRunBranch(run.dryRun)
    /\ run' = [run EXCEPT !.printed = run.decks, !.pc = "exit"]
    /\ UNCHANGED << naming, job >>
    /\ UNCHANGED pipeline

\* kafka.NewProducer; logger.Fatal ends the program when it fails.
NewProducer ==
    /\ run.pc = "ingest"
    /\ run.f > Len(run.listing)
    /\ ~dryRunBranch(run.dryRun)
    /\ \E err \in BOOLEAN :
          run' = IF err THEN [run EXCEPT !.pc = "fatal"]
                 ELSE [run EXCEPT !.producer = "open", !.pc = "publish"]
    /\ UNCHANGED << naming, job >>
    /\ UNCHANGED pipeline

\* A loop that goes on to the cards of the deck whatever the deck event did.
afterDeckEventNoContinue(err, d) == << d, 1 >>

\* Where the loop goes after the deck event of deck d: on an error to the
\* next deck (continue), else to the first card of the deck.
afterDeckEvent(err, d) == IF err THEN << d + 1, 0 >> ELSE << d, 1 >>

\* The outcomes of publishEvent: an error only while the bound allows one.
publishErrors == IF Cardinality(run.failed) < MaxSendFailures THEN BOOLEAN ELSE {FALSE}

PublishDeckEvent ==
    /\ run.pc = "publish"
    /\ run.d <= Len(run.decks)
    /\ run.c = 0
    /\ \E err \in publishErrors :
       \E next \in {afterDeckEvent(err, run.d)} :
          run' = [run EXCEPT
              !.drawn = @ + 1,
              !.produced = IF err THEN @
                           ELSE Append(@, [ topic |-> "mtg.decks",
                                            event |-> createDeckEvent(run.decks[run.d],
                                                uuid("deck-ingester", run.drawn + 1), clock) ]),
              !.failed = IF err THEN @ \cup {<< run.d, 0 >>} ELSE @,
              !.publishedCount = IF err THEN @ ELSE @ + 1,
              !.d = next[1],
              !.c = next[2]]
    /\ UNCHANGED << naming, job >>
    /\ UNCHANGED pipeline

PublishCardEvent ==
    /\ run.pc = "publish"
    /\ run.d <= Len(run.decks)
    /\ run.c \in 1..Len(run.decks[run.d].cards)
    /\ \E err \in publishErrors :
       LET deck == run.decks[run.d]
       IN run' = [run EXCEPT
              !.drawn = @ + 1,
              !.produced = IF err THEN @
                           ELSE Append(@, [ topic |-> "mtg.deck-cards",
                                            event |-> createDeckCardEvent(deck.id, deck.name,
                                                deck.cards[run.c],
                                                uuid("deck-ingester", run.drawn + 1), clock) ]),
              !.failed = IF err THEN @ \cup {<< run.d, run.c >>} ELSE @,
              !.cardEventCount = IF err THEN @ ELSE @ + 1,
              !.c = @ + 1]
    /\ UNCHANGED << naming, job >>
    /\ UNCHANGED pipeline

\* time.Sleep after the cards of a deck, then the next deck.
Sleep ==
    /\ run.pc = "publish"
    /\ run.d <= Len(run.decks)
    /\ run.c > Len(run.decks[run.d].cards)
    /\ run' = [run EXCEPT !.d = @ + 1, !.c = 0]
    /\ UNCHANGED << naming, job >>
    /\ UNCHANGED pipeline

\* producer.Flush after the loop; the deferred producer.Close on return.
FlushAndClose ==
    /\ run.pc = "publish"
    /\ run.d > Len(run.decks)
    /\ run' = [run EXCEPT !.flushed = TRUE, !.producer = "closed", !.pc = "exit"]
    /\ UNCHANGED << naming, job >>
    /\ UNCHANGED pipeline

IngesterNext ==
    \/ IngestListed
    \/ DryRunPrint
    \/ NewProducer
    \/ PublishDeckEvent
    \/ PublishCardEvent
    \/ Sleep
    \/ FlushAndClose

IngesterSpec == IngesterInit /\ [][IngesterNext]_vars

(***************************************************************************)
(* Specification of one run of the MTGJSON ingestion job (cmd/main.go):    *)
(* sets, atomic cards and prices are fetched and published in turn, then   *)
(* the producer is flushed.  job.returned[s] holds what the Publish calls  *)
(* of stage s returned, TRUE for nil; job.order the fetches in the order   *)
(* of the calls.                                                           *)
(***************************************************************************)
MaxRecords == 2

Stages == << "sets", "cards", "prices" >>

\* Where main goes after stage s: to the fetch of the next stage, or to Flush.
afterStage(s) ==
    IF s < Len(Stages) THEN [ pc |-> "fetch", stage |-> s + 1 ]
    ELSE [ pc |-> "flush", stage |-> s ]

\* A main that returns when a fetch fails.
afterFetchErrorReturns(s) == [ pc |-> "exit", stage |-> s ]

\* if err != nil { logger.Errorf(...) } else { ... }: the stage is skipped.
afterFetchError(s) == afterStage(s)

IngestionInit ==
    /\ job = [ pc |-> "fetch", stage |-> 1, n |-> 0, i |-> 1,
               fetched |-> [ s \in DOMAIN Stages |-> "none" ],
               published |-> [ s \in DOMAIN Stages |-> 0 ],
               returned |-> [ s \in DOMAIN Stages |-> <<>> ],
               order |-> <<>>, flushed |-> FALSE, producer |-> "open" ]
    /\ naming = noNaming
    /\ run = noRun
    /\ clock = 0
    /\ files = DeckFiles
    /\ ingested = <<>>
    /\ decks = <<>>
    /\ deckCardsTopic = [p \in Partitions |-> <<>>]
    /\ duplicates = 0
    /\ pricesTopic = <<>>
    /\ offsets = [p \in Partitions |-> 0]
    /\ priceOffset = 0
    /\ prices = <<>>
    /\ windows = EmptyMap
    /\ deckValues = <<>>
    /\ restarts = 0
    /\ malformed = 0
    /\ jobStatus = "RUNNING"
    /\ failures = <<>>
    /\ priceLog = <<>>
    /\ windowLog = EmptyMap
    /\ emitLog = <<>>

\* FetchAllSets, FetchAtomicCards or FetchPrices: an error, or n records.
Fetch ==
    /\ job.pc = "fetch"
    /\ \E err \in BOOLEAN, n \in 0..MaxRecords :
          IF err
          THEN \E next \in {afterFetchError(job.stage)} :
                  job' = [job EXCEPT
                      !.order = Append(@, Stages[job.stage]),
                      !.fetched[job.stage] = "error",
                      !.pc = next.pc,
                      !.stage = next.stage]
          ELSE job' = [job EXCEPT
                      !.order = Append(@, Stages[job.stage]),
                      !.fetched[job.stage] = "ok",
                      !.n = n,
                      !.i = 1,
                      !.published[job.stage] = 0,
                      !.pc = "publish"]
    /\ UNCHANGED << naming, run >>
    /\ UNCHANGED pipeline

\* One turn of the loop over the records: PublishSet, PublishCard or
\* PublishPrice; an error is logged, else the counter of the stage goes up.
PublishRecord ==
    /\ job.pc = "publish"
    /\ job.i <= job.n
    /\ \E err \in BOOLEAN :
          job' = [job EXCEPT
              !.returned[job.stage] = Append(@, ~err),
              !.published[job.stage] = IF err THEN @ ELSE @ + 1,
              !.i = @ + 1]
    /\ UNCHANGED << naming, run >>
    /\ UNCHANGED pipeline

\* After the loop of a stage.
StageDone ==
    /\ job.pc = "publish"
    /\ job.i > job.n
    /\ job' = [job EXCEPT !.pc = afterStage(job.stage).pc,
                          !.stage = afterStage(job.stage).stage]
    /\ UNCHANGED << naming, run >>
    /\ UNCHANGED pipeline

\* kafkaProducer.Flush, and the deferred kafkaProducer.Close on return.
FlushJob ==
    /\ job.pc = "flush"
    /\ job' = [job EXCEPT !.flushed = TRUE, !.producer = "closed", !.pc = "exit"]
    /\ UNCHANGED << naming, run >>
    /\ UNCHANGED pipeline

IngestionNext ==
    \/ Fetch
    \/ PublishRecord
    \/ StageDone
    \/ FlushJob

IngestionSpec == IngestionInit /\ [][IngestionNext]_vars

(***************************************************************************)
(* Vocabulary of the properties.                                           *)
(***************************************************************************)
\* The deck.card event a source record of the history names.
sourceEvent(rec) == deckCardsTopic[rec.partition][rec.offset]

position(rec) == << rec.partition, rec.offset >>

positions(recs) == { position(r) : r \in recs }

eventIds(recs) == { sourceEvent(r).eventId : r \in recs }

\* The configured default price: the job's only price constant.
defaultPrice == AvgCardPrice

\* The side-table price of a record at the moment it was aggregated.
priceAtAggregation(rec) ==
    IF rec.price = {} THEN defaultPrice ELSE CHOOSE x \in rec.price : TRUE

RECURSIVE quantityOf(_)
quantityOf(recs) ==
    IF recs = {} THEN 0
    ELSE LET r == CHOOSE x \in recs : TRUE
         IN sourceEvent(r).data.quantity + quantityOf(recs \ {r})

\* The quantity of the distinct events among the records: one per event id.
RECURSIVE distinctQuantityOf(_)
distinctQuantityOf(recs) ==
    IF recs = {} THEN 0
    ELSE LET r == CHOOSE x \in recs : TRUE
         IN sourceEvent(r).data.quantity
            + distinctQuantityOf({ q \in recs :
                                    sourceEvent(q).eventId # sourceEvent(r).eventId })

RECURSIVE pricedValueOf(_)
pricedValueOf(recs) ==
    IF recs = {} THEN 0
    ELSE LET r == CHOOSE x \in recs : TRUE
         IN sourceEvent(r).data.quantity * priceAtAggregation(r)
            + pricedValueOf(recs \ {r})

noDuplicateIn(recs) == Cardinality(eventIds(recs)) = Cardinality(recs)

(***************************************************************************)
(* C1.  Idempotence of process: delivering a deck.card event a second time *)
(* (same eventId) before its window closes leaves the window's total       *)
(* quantity and value what they were after the first delivery, and the     *)
(* emitted total_cards and total_value are those of a single delivery.     *)
(* Stated: every open window and every emitted event counts each distinct  *)
(* event id among its source records once.                                 *)
(***************************************************************************)
C1_IdempotentDelivery ==
    /\ \A k \in DOMAIN windows :
          /\ windows[k].quantity = distinctQuantityOf(windowLog[k])
          /\ estimatedValue(windows[k])
                = AvgCardPrice * distinctQuantityOf(windowLog[k])
    /\ \A i \in DOMAIN deckValues :
          /\ deckValues[i].data.total_cards = distinctQuantityOf(emitLog[i].records)
          /\ deckValues[i].data.total_value
                = AvgCardPrice * distinctQuantityOf(emitLog[i].records)

(***************************************************************************)
(* C2.  Value invariant: the value of every window is the sum over the     *)
(* events applied to it of quantity times the side-table price of the item *)
(* at the moment the event was aggregated, the default price when the item *)
(* had no entry (Bolt x4 at 2.00 and Lotus x1 without entry: 13.00).       *)
(* Stated for the windows that hold no event twice, open or emitted.       *)
(***************************************************************************)
C2_ValueIsPricedSum ==
    /\ \A k \in DOMAIN windows :
          noDuplicateIn(windowLog[k])
             => estimatedValue(windows[k]) = pricedValueOf(windowLog[k])
    /\ \A i \in DOMAIN deckValues :
          noDuplicateIn(emitLog[i].records)
             => deckValues[i].data.total_value = pricedValueOf(emitLog[i].records)

(***************************************************************************)
(* C3.  The price lookup is total with an explicit default: a window whose *)
(* items had no side-table entry when they were aggregated is valued at    *)
(* exactly the default price per card, never at zero.                      *)
(***************************************************************************)
C3_DefaultPriceForUnpriced ==
    /\ \A k \in DOMAIN windows :
          (\A r \in windowLog[k] : r.price = {})
             => /\ estimatedValue(windows[k]) = defaultPrice * windows[k].quantity
                /\ estimatedValue(windows[k]) > 0
    /\ \A i \in DOMAIN deckValues :
          (\A r \in emitLog[i].records : r.price = {})
             => /\ deckValues[i].data.total_value
                      = defaultPrice * deckValues[i].data.total_cards
                /\ deckValues[i].data.total_value > 0

\* An event was emitted for a window of never-priced items only, while the
\* price feed had already delivered a price for another item.
C3_Witness ==
    \E i \in DOMAIN deckValues :
        /\ \A r \in emitLog[i].records : r.price = {}
        /\ \E r \in emitLog[i].records : sourceEvent(r).data.card_name = Lotus
        /\ latestEntry(priceLog, Bolt) # {}
        /\ deckValues[i].data.total_value = defaultPrice

(***************************************************************************)
(* C4.  Order independence: for the events of a window, the total quantity *)
(* and the value are the same for every order of arrival.  Stated: reducing*)
(* the source records of a window in any order gives the totals the window *)
(* holds, and the totals of the event emitted for it.                      *)
(***************************************************************************)
arrivalOrders(recs) ==
    { s \in [1..Cardinality(recs) -> recs] :
        \A i \in DOMAIN s : \A j \in DOMAIN s : (s[i] = s[j]) => (i = j) }

RECURSIVE reduceInOrder(_)
reduceInOrder(s) ==
    IF Len(s) = 1 THEN parseDeckCard(sourceEvent(s[1]))
    ELSE reduce(reduceInOrder(SubSeq(s, 1, Len(s) - 1)),
                parseDeckCard(sourceEvent(s[Len(s)])))

C4_OrderIndependent ==
    /\ \A k \in DOMAIN windows : \A s \in arrivalOrders(windowLog[k]) :
          /\ reduceInOrder(s).quantity = windows[k].quantity
          /\ estimatedValue(reduceInOrder(s)) = estimatedValue(windows[k])
    /\ \A i \in DOMAIN deckValues : \A s \in arrivalOrders(emitLog[i].records) :
          /\ reduceInOrder(s).quantity = deckValues[i].data.total_cards
          /\ estimatedValue(reduceInOrder(s)) = deckValues[i].data.total_value

\* Two open windows hold the same cards, reduced in opposite orders, with
\* the same total.
C4_Witness ==
    \E k1 \in DOMAIN windows : \E k2 \in DOMAIN windows :
        /\ windows[k1].cardName = << Bolt, Lotus >>
        /\ windows[k2].cardName = << Lotus, Bolt >>
        /\ windows[k1].quantity = 5
        /\ windows[k2].quantity = 5

(***************************************************************************)
(* C5.  Tumbling assignment by event time: every event is counted in the   *)
(* window whose start is floor(event_time / window_size) * window_size.    *)
(***************************************************************************)
C5_WindowByEventTime ==
    /\ \A k \in DOMAIN windowLog : \A r \in windowLog[k] :
          k[2] = (sourceEvent(r).timestamp \div WindowSize) * WindowSize
    /\ \A i \in DOMAIN emitLog : \A r \in emitLog[i].records :
          emitLog[i].key[2] = (sourceEvent(r).timestamp \div WindowSize) * WindowSize

(***************************************************************************)
(* C6.  Recovery equivalence: after a restart and the replay of the        *)
(* topic, what is emitted is what processing the stream once would emit:   *)
(* no record is lost and none is counted twice.  Stated: no source record  *)
(* is counted in the emitted events of two different windows.              *)
(***************************************************************************)
C6_NoRecordCountedTwice ==
    \A i \in DOMAIN emitLog : \A j \in DOMAIN emitLog :
        (emitLog[i].key # emitLog[j].key)
           => positions(emitLog[i].records) \cap positions(emitLog[j].records) = {}

(***************************************************************************)
(* C7.  Emitted snapshots and later prices: applying a price update emits  *)
(* nothing and changes no emitted event, and an event emitted later values *)
(* what was aggregated after the update at the new price.                  *)
(***************************************************************************)
C7_LaterPricesOnlyLaterWindows ==
    [][ /\ (priceLog' # priceLog) => (deckValues' = deckValues)
        /\ \A i \in DOMAIN deckValues :
              i \in DOMAIN deckValues' /\ deckValues'[i] = deckValues[i]
        /\ \A i \in (DOMAIN deckValues') \ (DOMAIN deckValues) :
              (noDuplicateIn(emitLog[i].records)
                 => deckValues[i].data.total_value
                       = pricedValueOf(emitLog[i].records))' ]_vars

(***************************************************************************)
(* C8.  Deterministic snapshot id: two emitted events for the same deck    *)
(* and the same window contents (the same source records, as before and    *)
(* after a restart) carry the same eventId, and events for different       *)
(* decks or windows carry different ids.                                   *)
(***************************************************************************)
C8_SnapshotIdDeterministic ==
    \A i \in DOMAIN deckValues : \A j \in DOMAIN deckValues :
        /\ ( /\ deckValues[i].data.deck_id = deckValues[j].data.deck_id
             /\ positions(emitLog[i].records) = positions(emitLog[j].records) )
              => deckValues[i].eventId = deckValues[j].eventId
        /\ (emitLog[i].key # emitLog[j].key)
              => deckValues[i].eventId # deckValues[j].eventId

(***************************************************************************)
(* C9.  Deterministic collection id: ingesting the same deck file twice    *)
(* yields the same deck id, so its card events are keyed to one deck.      *)
(***************************************************************************)
C9_DeckIdDeterministic ==
    \A i \in DOMAIN decks : \A j \in DOMAIN decks :
        (decks[i].file_path = decks[j].file_path) => (decks[i].id = decks[j].id)

(***************************************************************************)
(* C10.  Side-table last-write-wins by observed_at: the job holds at most  *)
(* one price entry per item, and it is the price of the applied update     *)
(* with the greatest date, among equal dates the one applied last.         *)
(***************************************************************************)
C10_LastWriteWins ==
    \A item \in { prices[i].cardId : i \in DOMAIN prices } :
        LET entries == { i \in DOMAIN prices : prices[i].cardId = item }
        IN /\ Cardinality(entries) <= 1
           /\ \A i \in entries : { prices[i].price } = latestEntry(priceLog, item)

(***************************************************************************)
(* C11.  One snapshot per closed window: a window that has fired is gone   *)
(* from the window state and is never opened or fired again, so no two     *)
(* emitted events are of the same deck and window, and each firing has put *)
(* exactly one event on mtg.deck-values.                                   *)
(***************************************************************************)
C11_OneSnapshotPerWindow ==
    /\ Len(deckValues) = Len(emitLog)
    /\ \A i \in DOMAIN emitLog :
          /\ emitLog[i].key \notin DOMAIN windows
          /\ deckValues[i].data.deck_id = emitLog[i].key[1]
          /\ \A j \in DOMAIN emitLog : (emitLog[j].key = emitLog[i].key) => (j = i)

\* In a run without a restart a deck has a fired window and, later, an open one.
C11_Witness ==
    /\ restarts = 0
    /\ \E i \in DOMAIN emitLog : \E k \in DOMAIN windows :
          k[1] = emitLog[i].key[1] /\ k[2] > emitLog[i].key[2]

(***************************************************************************)
(* C12.  Emission failure never loses a window: outside a restart and a    *)
(* failure on input, the state of a window goes away only in a step that   *)
(* puts its event on mtg.deck-values, and the job keeps running; so a send *)
(* that fails leaves the window in place for a later attempt.              *)
(***************************************************************************)
nextRecord(p) == deckCardsTopic[p][offsets[p] + 1]

failedOnInput == \E p \in Partitions : ProcessDeckCard(p) /\ parseDeckCardThrows(nextRecord(p))

C12_EmissionFailureKeepsWindow ==
    [][ \A k \in DOMAIN windows :
           (k \notin DOMAIN windows' /\ restarts' = restarts /\ ~failedOnInput)
           => /\ jobStatus' = "RUNNING"
              /\ Len(deckValues') = Len(deckValues) + 1
              /\ deckValues'[Len(deckValues')].data.deck_id = k[1] ]_vars

(***************************************************************************)
(* C13.  Malformed events are dropped, not fatal: the step that takes a    *)
(* record the parser cannot read changes no window, leaves the job running *)
(* and moves on to the next record of the partition.                       *)
(***************************************************************************)
C13_MalformedDropped ==
    [][ \A p \in Partitions :
           (ProcessDeckCard(p) /\ parseDeckCardThrows(nextRecord(p)))
           => /\ windows' = windows
              /\ jobStatus' = "RUNNING"
              /\ offsets'[p] = offsets[p] + 1 ]_vars

(***************************************************************************)
(* C14.  Error isolation between collections: the step that takes a record *)
(* of deck A, well-formed or not, leaves the windows and the emitted       *)
(* events of every other deck as they were.                                *)
(***************************************************************************)
C14_IsolatedCollections ==
    [][ \A p \in Partitions :
           (ProcessDeckCard(p) /\ "deck_id" \in DOMAIN nextRecord(p).data)
           => /\ \A k \in DOMAIN windows :
                    (k[1] # nextRecord(p).data.deck_id)
                    => (k \in DOMAIN windows' /\ windows'[k] = windows[k])
              /\ deckValues' = deckValues ]_vars

(***************************************************************************)
(* Vocabulary of the normalizer properties: the lines of a file, a line    *)
(* without its surrounding white space, and the forms of a line, stated    *)
(* on positions and not by scanning.                                       *)
(***************************************************************************)
whiteSpace == { " ", "\t", "\r", "\n" }

\* The lines of a content: what lies between two line feeds next to each other.
linesOf(content) ==
    LET feeds == { i \in DOMAIN content : content[i] = "\n" }
        ends  == feeds \cup {Len(content) + 1}
        start(e) == IF \E f \in feeds : f < e
                    THEN 1 + CHOOSE f \in feeds : f < e /\ \A g \in feeds : g < e => g <= f
                    ELSE 1
    IN { << e, SubSeq(content, start(e), e - 1) >> : e \in ends }

\* The line without the white space around it.
strip(l) ==
    LET ink == { i \in DOMAIN l : l[i] \notin whiteSpace }
    IN IF ink = {} THEN <<>>
       ELSE SubSeq(l, CHOOSE i \in ink : \A j \in ink : i <= j,
                      CHOOSE i \in ink : \A j \in ink : j <= i)

ignorable(t) ==
    \/ t = <<>>
    \/ t[1] = "#"
    \/ (Len(t) >= 2 /\ t[1] = "/" /\ t[2] = "/")

\* The first word of a stripped line and what follows it.
firstWord(t) ==
    IF \E i \in DOMAIN t : t[i] \in whiteSpace
    THEN SubSeq(t, 1, (CHOOSE i \in DOMAIN t :
                          t[i] \in whiteSpace /\ \A j \in 1..(i - 1) : t[j] \notin whiteSpace) - 1)
    ELSE t

afterFirstWord(t) == strip(SubSeq(t, Len(firstWord(t)) + 1, Len(t)))

RECURSIVE power10(_)
power10(n) == IF n = 0 THEN 1 ELSE 10 * power10(n - 1)

RECURSIVE decimalFrom(_, _)
decimalFrom(w, i) ==
    IF i > Len(w) THEN 0 ELSE digit(w[i]) * power10(Len(w) - i) + decimalFrom(w, i + 1)

isNumber(w) == w # <<>> /\ \A i \in DOMAIN w : w[i] \in Digits

\* '<positive integer> <item name>': decimal digits of a value above zero,
\* a space, and a name.
cardForm(t) ==
    /\ isNumber(firstWord(t))
    /\ decimalFrom(firstWord(t), 1) > 0
    /\ Len(t) > Len(firstWord(t))
    /\ t[Len(firstWord(t)) + 1] = " "
    /\ afterFirstWord(t) # <<>>

recordOf(t) == [ quantity |-> decimalFrom(firstWord(t), 1), name |-> afterFirstWord(t) ]

\* A line whose quantity is missing, zero or negative, or whose name is empty.
malformedLine(t) ==
    /\ ~ignorable(t)
    /\ \/ ~(isNumber(firstWord(t))
            \/ (firstWord(t)[1] \in {"+", "-"} /\ isNumber(Tail(firstWord(t)))))
       \/ (isNumber(firstWord(t)) /\ decimalFrom(firstWord(t), 1) = 0)
       \/ (firstWord(t)[1] = "+" /\ decimalFrom(Tail(firstWord(t)), 1) = 0)
       \/ firstWord(t)[1] = "-"
       \/ afterFirstWord(t) = <<>>

\* The records of the lines of a content that have the card form, in the
\* order of the lines.
RECURSIVE recordsUpTo(_, _)
recordsUpTo(content, e) ==
    IF e = 0 THEN <<>>
    ELSE LET here == { l \in linesOf(content) : l[1] = e }
         IN recordsUpTo(content, e - 1)
            \o (IF here # {} /\ cardForm(strip((CHOOSE l \in here : TRUE)[2]))
                THEN << recordOf(strip((CHOOSE l \in here : TRUE)[2])) >>
                ELSE <<>>)

formRecords(content) == recordsUpTo(content, Len(content) + 1)

\* The decks either parser has made, each with the content it was made of.
parsedDecks ==
    { << decks[i], files[decks[i].file_path] >> : i \in DOMAIN decks }
    \cup { << ingested[i].deck, files[ingested[i].deck.file_path] >> : i \in DOMAIN ingested }

cardEvents ==
    UNION { { deckCardsTopic[p][i] : i \in DOMAIN deckCardsTopic[p] } : p \in Partitions }
    \cup UNION { { ingested[r].cardEvents[i] : i \in DOMAIN ingested[r].cardEvents } :
                 r \in DOMAIN ingested }

C16_NormalizerRejects ==
    /\ \A d \in parsedDecks :
          /\ Len(d[1].cards) <=
                Cardinality({ l \in linesOf(d[2]) :
                                ~malformedLine(strip(l[2])) /\ ~ignorable(strip(l[2])) })
          /\ \A i \in DOMAIN d[1].cards :
                d[1].cards[i].quantity >= 1 /\ d[1].cards[i].name # <<>>
    /\ \A e \in cardEvents :
          (e.source = "deck-ingester") => (e.data.quantity >= 1 /\ e.data.card_name # <<>>)

(***************************************************************************)
(* C17.  Skip, never abort: whatever the lines of a file, the deck is made *)
(* and holds the records of all the lines of the card form, in the order   *)
(* of the lines: those before a line that is skipped and those after it.   *)
(***************************************************************************)
RECURSIVE isSubsequence(_, _)
isSubsequence(a, b) ==
    IF a = <<>> THEN TRUE
    ELSE IF b = <<>> THEN FALSE
    ELSE IF Head(a) = Head(b) THEN isSubsequence(Tail(a), Tail(b))
    ELSE isSubsequence(a, Tail(b))

deckOf(event) ==
    IF "data" \in DOMAIN event /\ "deck_id" \in DOMAIN event.data
    THEN << event.data.deck_id >>
    ELSE << >>

partitionsOf(deckId) ==
    { p \in Partitions :
        \E i \in DOMAIN deckCardsTopic[p] : deckOf(deckCardsTopic[p][i]) = << deckId >> }

C18_KeyedByDeck ==
    \A i \in DOMAIN decks : Cardinality(partitionsOf(decks[i].id)) <= 1

(***************************************************************************)
(* C19: every price.updated message published to mtg.prices is keyed by    *)
(* the identity of the priced card alone: two messages for the same card   *)
(* carry the same key, whenever they are published.                        *)
(***************************************************************************)
C19_PriceKeyByItem ==
    \A i, j \in DOMAIN pricesTopic :
        (pricesTopic[i].data.card_uuid = pricesTopic[j].data.card_uuid)
            => (pricesTopic[i].key = pricesTopic[j].key)

(***************************************************************************)
(* C20: a clean shutdown drains.  When the running job is stopped, every   *)
(* record held in a window open at that moment is, when the process has    *)
(* exited, in an emitted snapshot or in the final checkpoint.              *)
(***************************************************************************)
\* The records of the job's last checkpoint.  The environment never enables
\* checkpointing and nothing takes a savepoint: there is none.
finalCheckpoint == {}

emitted(log) == UNION { log[i].records : i \in DOMAIN log }

cleanShutdown == jobStatus = "RUNNING" /\ restarts' = restarts + 1

C20_ShutdownDrains ==
    [][ cleanShutdown =>
           \A key \in DOMAIN windowLog :
              windowLog[key] \subseteq (emitted(emitLog') \cup finalCheckpoint) ]_vars

(***************************************************************************)
(* Event time in the job.  The Kafka source stamps each record with the    *)
(* time of its production, and the watermark strategy of the deck-cards    *)
(* stream trails the greatest stamp read in the run by the bound of the    *)
(* out-of-orderness.  (Flink subtracts one more millisecond, and an        *)
(* event-time window ends one millisecond before its end: the two cancel.) *)
(***************************************************************************)
\* WatermarkStrategy.forBoundedOutOfOrderness(Duration.ofSeconds(5))
OutOfOrderness == 5

\* The event times of the records the deck-cards source has read in this run.
eventTimesSeen ==
    UNION { { deckCardsTopic[p][i].timestamp : i \in 1..offsets[p] } : p \in Partitions }

\* The watermark of the deck-cards stream is at or past the instant t.
watermarkPast(t) == \E u \in eventTimesSeen : u - OutOfOrderness >= t

windowEnd(key) == key[2] + WindowSize

(***************************************************************************)
(* C21.  Window closure respects the watermark: within a run of the job    *)
(* the watermark never decreases, and a window is fired (its event is      *)
(* emitted) only in a state where the watermark is at or past the end of   *)
(* the window; the wall clock alone closes no window.                      *)
(***************************************************************************)
C21_ClosureRespectsWatermark ==
    [][ /\ (restarts' = restarts)
              => \A u \in eventTimesSeen : \E v \in eventTimesSeen' : v >= u
        /\ \A key \in DOMAIN windows :
              (key \notin DOMAIN windows' /\ emitLog' # emitLog)
                 => watermarkPast(windowEnd(key)) ]_vars

(***************************************************************************)
(* C22.  Closed windows accept nothing and late data is accounted for: no  *)
(* step changes the event emitted for a fired window or opens its window   *)
(* again, and a record read when the window of its event time has already  *)
(* fired for its deck is not lost: the step merges it into the next window *)
(* that is open, a window later than the one it targets, whose total grows *)
(* by the record's quantity.                                               *)
(***************************************************************************)
\* The window of its deck a record targets: the one of its event time.
targetWindow(value) == << value.data.deck_id, windowStart(value.timestamp) >>

targetsClosed(value) == \E i \in DOMAIN emitLog : emitLog[i].key = targetWindow(value)

mergedLater(p) ==
    \E k \in DOMAIN windows' :
        /\ k = << nextRecord(p).data.deck_id, windowStart(clock) >>
        /\ k[2] > targetWindow(nextRecord(p))[2]
        /\ << p, offsets[p] + 1 >> \in positions(windowLog'[k])
        /\ windows'[k].quantity
              = (IF k \in DOMAIN windows THEN windows[k].quantity ELSE 0)
                + nextRecord(p).data.quantity

withinTolerance(value) ==
    \A u \in eventTimesSeen : u - value.timestamp <= OutOfOrderness

C23_EventTimeTolerance ==
    [][ \A p \in Partitions :
           ( /\ ProcessDeckCard(p)
             /\ ~parseDeckCardThrows(nextRecord(p))
             /\ withinTolerance(nextRecord(p)) )
           => /\ targetWindow(nextRecord(p)) \in DOMAIN windowLog'
              /\ << p, offsets[p] + 1 >>
                    \in positions(windowLog'[targetWindow(nextRecord(p))]) ]_vars

(***************************************************************************)
(* C24.  Frame condition of the window state: the state of window          *)
(* [start, start + size) of a deck is created or changed only by the step  *)
(* that processes a record of that deck whose event time lies in the       *)
(* window and whose event the window does not hold yet; price updates,     *)
(* records of other windows or decks and duplicates leave it as it is.     *)
(***************************************************************************)
changes(key) ==
    /\ key \in DOMAIN windows'
    /\ (key \in DOMAIN windows) => (windows'[key] # windows[key])

ownEvent(key, p) ==
    /\ ProcessDeckCard(p)
    /\ ~parseDeckCardThrows(nextRecord(p))
    /\ nextRecord(p).data.deck_id = key[1]
    /\ key[2] <= nextRecord(p).timestamp
    /\ nextRecord(p).timestamp < windowEnd(key)
    /\ (key \in DOMAIN windowLog) => (nextRecord(p).eventId \notin eventIds(windowLog[key]))

C24_WindowFrame ==
    [][ \A key \in DOMAIN windows' :
           changes(key) => \E p \in Partitions : ownEvent(key, p) ]_vars

(***************************************************************************)
(* Item identity.  The identity of an item is the card name the parsers    *)
(* put into the card record, the one name the deck.card event carries.     *)
(* The spelling of an item is what its line says after the quantity.       *)
(***************************************************************************)
fold(c) == IF c = "B" THEN "b" ELSE c

casefold(name) == [ i \in DOMAIN name |-> fold(name[i]) ]

\* The decks whose cards are those of the lines of the card form, one for
\* one: each with the names of its cards and the spellings of the lines
\* without the white space around them.
identities ==
    { [ name |-> [ i \in DOMAIN d[1].cards |-> d[1].cards[i].name ],
        spelling |-> [ i \in DOMAIN d[1].cards |-> formRecords(d[2])[i].name ] ] :
      d \in { e \in parsedDecks : Len(e[1].cards) = Len(formRecords(e[2])) } }

distinctNames(cards) == { cards[i].name : i \in DOMAIN cards }

C26_UniqueIsDistinctCount ==
    \A d \in parsedDecks :
        /\ d[1].unique_cards = Cardinality(distinctNames(d[1].cards))
        /\ d[1].total_cards = sumQuantity(d[1].cards)

(***************************************************************************)
(* C27.  Single writer per key: a step that changes the state of a window  *)
(* is the processing of exactly one record, of that window's deck; it      *)
(* changes no other window, and it adds the record's quantity and value to *)
(* what the window held, so that of two records for one key the second is  *)
(* applied to the result of the first and no update is lost.               *)
(***************************************************************************)
held(key) == IF key \in DOMAIN windows THEN windows[key].quantity ELSE 0

writes(p, key) ==
    /\ ProcessDeckCard(p)
    /\ key = << nextRecord(p).data.deck_id, windowStart(clock) >>
    /\ windows'[key].quantity = held(key) + nextRecord(p).data.quantity
    /\ estimatedValue(windows'[key])
          = held(key) * AvgCardPrice + nextRecord(p).data.quantity * AvgCardPrice

lookup(item) == estimatedValue(DeckCard(<<>>, <<>>, << item >>, 1))

\* The prices of the updates to an item that the job has applied so far.
appliedPrices(item) ==
    { prices[i].price : i \in { j \in DOMAIN prices : prices[j].cardId = item } }

Items == { Bolt, Lotus, Island }

(***************************************************************************)
(* C28.  Side-table reads are atomic under concurrent updates: in every    *)
(* interleaving of price updates with the valuation, the lookup of an item *)
(* gives the default while no update to the item has been applied, and     *)
(* then the whole price of one of the updates applied to it, never a       *)
(* mixture; and an update to one item leaves the lookup of every other     *)
(* item as it was.                                                         *)
(***************************************************************************)
C28_AtomicLookup ==
    \A item \in Items :
        /\ (appliedPrices(item) = {}) => (lookup(item) = defaultPrice)
        /\ (appliedPrices(item) # {}) => (lookup(item) \in appliedPrices(item))

(***************************************************************************)
(* C29.  Side-table entries never expire: once a price update for an item  *)
(* has been applied, the lookup of the item gives its last known price,    *)
(* the one of the latest observation, and never the default again, however *)
(* far the clock has moved on since.                                       *)
(***************************************************************************)
C29_EntriesNeverExpire ==
    \A item \in Items :
        (latestEntry(priceLog, item) # {})
           => /\ lookup(item) # defaultPrice
              /\ { lookup(item) } = latestEntry(priceLog, item)

(***************************************************************************)
(* C30.  A sustained checkpoint failure is fatal and visible: the job      *)
(* never goes on processing records with checkpointing silently off.       *)
(* Stated: whenever the job is running and holds window state built from   *)
(* records it has read, checkpointing is enabled.                          *)
(***************************************************************************)
\* Whether the environment of the job has checkpointing enabled: main never
\* calls env.enableCheckpointing.
checkpointingEnabled == FALSE

C30_NeverRunsUncheckpointed ==
    (jobStatus = "RUNNING" /\ windows # EmptyMap) => checkpointingEnabled

readAs(t) ==
    LET w == firstWord(t)
        u == IF w # <<>> /\ w[1] = "+" THEN Tail(w) ELSE w
    IN [ quantity |-> IF isNumber(u) THEN decimalFrom(u, 1) ELSE 0,
         name |-> afterFirstWord(t) ]

\* The lines of a content in their order, each read as a card.
RECURSIVE readUpTo(_, _)
readUpTo(content, e) ==
    IF e = 0 THEN <<>>
    ELSE LET here == { l \in linesOf(content) : l[1] = e }
         IN readUpTo(content, e - 1)
            \o (IF here # {} THEN << readAs(strip((CHOOSE l \in here : TRUE)[2])) >>
                ELSE <<>>)

C33_DeckTotalsConsistent ==
    \A i \in DOMAIN decks :
        /\ decks[i].total_cards = sumQuantity(decks[i].cards)
        /\ decks[i].unique_cards = Len(decks[i].cards)
        /\ \A c \in DOMAIN decks[i].cards :
              decks[i].cards[c].quantity > 0 /\ decks[i].cards[c].name # <<>>
        /\ isSubsequence(decks[i].cards,
                         readUpTo(files[decks[i].file_path],
                                  Len(files[decks[i].file_path]) + 1))

\* ingestDeckFile has read a file of three card lines, the middle one with
\* a quantity of its own, and the deck holds the three in their order.
C33_Witness ==
    /\ decks # <<>>
    /\ Len(decks[1].cards) = 3
    /\ decks[1].cards[2].quantity = 11
    /\ decks[1].total_cards = 23
    /\ decks[1].unique_cards = 3

(***************************************************************************)
(* C34.  The two deck parsers agree: of every file content, ingestDeckFile *)
(* of the deck-ingester command and Ingester.IngestFile of the deck        *)
(* package make the same sequence of (quantity, name) records and the same *)
(* total_cards and unique_cards.                                           *)
(***************************************************************************)
C34_ParsersAgree ==
    \A i \in DOMAIN decks : \A j \in DOMAIN ingested :
        (decks[i].file_path = ingested[j].deck.file_path)
           => /\ decks[i].cards = ingested[j].deck.cards
              /\ decks[i].total_cards = ingested[j].deck.total_cards
              /\ decks[i].unique_cards = ingested[j].deck.unique_cards

(***************************************************************************)
(* C37.  The two derivations of the deck name agree: of every file name    *)
(* the ingesters match, "*.deck" or "*.deck.txt", extractDeckName of the   *)
(* deck-ingester command and extractDeckName of package deck give the same *)
(* deck name.                                                              *)
(***************************************************************************)
C37_DeckNamesAgree ==
    (naming.names # <<>>) => (naming.names[1] = naming.names[2])

(***************************************************************************)
(* C32.  A dry run publishes nothing: with -dry-run every deck file of the *)
(* listing is still parsed (the readable ones make the decks, which are    *)
(* printed), no Kafka producer is created, and no deck.ingested or         *)
(* deck.card event is produced on any topic, whatever the input files.     *)
(***************************************************************************)
readableListed == SelectSeq(run.listing, LAMBDA filePath : filePath \in DOMAIN files)

C32_DryRunPublishesNothing ==
    run.dryRun =>
        /\ run.producer = "none"
        /\ run.produced = <<>>
        /\ run.failed = {}
        /\ ~run.flushed
        /\ run.pc \in {"ingest", "exit"}
        /\ (run.pc = "exit") =>
              /\ run.f = Len(run.listing) + 1
              /\ [ i \in DOMAIN run.decks |-> run.decks[i].file_path ] = readableListed
              /\ \A i \in DOMAIN run.decks :
                    run.decks[i] = ingestDeckFile(run.decks[i].file_path, run.decks[i].id, clock)
              /\ run.printed = run.decks

\* A dry run over the three files has ended: two decks printed, the
\* unreadable file skipped.
C32_Witness ==
    /\ run.dryRun
    /\ run.pc = "exit"
    /\ run.listing = << "alpha", "gamma", "beta" >>
    /\ Len(run.printed) = 2

(***************************************************************************)
(* C35.  In the publish loop of the deck ingester a deck's deck.card       *)
(* events are produced only after that deck's deck.ingested event was      *)
(* produced without error; a deck whose deck event failed gets none of its *)
(* card events and the loop goes on with the next deck; a failed card      *)
(* event skips only that card.  At the end publishedCount is at most the   *)
(* number of decks and cardEventCount at most the number of card records   *)
(* of the published decks.                                                 *)
(***************************************************************************)
deckEventAt(i, d) ==
    /\ run.produced[i].topic = "mtg.decks"
    /\ run.produced[i].event.eventType = "deck.ingested"
    /\ run.produced[i].event.data = run.decks[d]

cardEventAt(i, d, c) ==
    /\ run.produced[i].topic = "mtg.deck-cards"
    /\ run.produced[i].event.eventType = "deck.card"
    /\ run.produced[i].event.data.deck_id = run.decks[d].id
    /\ run.produced[i].event.data.card_name = run.decks[d].cards[c].name
    /\ run.produced[i].event.data.quantity = run.decks[d].cards[c].quantity

publishedDecks == { d \in DOMAIN run.decks : \E i \in DOMAIN run.produced : deckEventAt(i, d) }

cardRecords(ds) == UNION { { << d, c >> : c \in DOMAIN run.decks[d].cards } : d \in ds }

C35_DeckEventPrecedesCards ==
    (run.producer # "none") =>
        \* each card event follows the deck event of its deck
        /\ \A i \in DOMAIN run.produced :
              (run.produced[i].topic = "mtg.deck-cards") =>
                 \E d \in DOMAIN run.decks : \E j \in 1..(i - 1) :
                    /\ deckEventAt(j, d)
                    /\ run.produced[i].event.data.deck_id = run.decks[d].id
        \* a deck whose deck event failed has no event at all
        /\ \A d \in DOMAIN run.decks :
              (<< d, 0 >> \in run.failed) =>
                 \A i \in DOMAIN run.produced :
                    /\ ~deckEventAt(i, d)
                    /\ (run.produced[i].topic = "mtg.deck-cards")
                          => run.produced[i].event.data.deck_id # run.decks[d].id
        \* the counters count the events produced
        /\ run.publishedCount = Cardinality(publishedDecks)
        /\ run.publishedCount
              = Cardinality({ i \in DOMAIN run.produced : run.produced[i].topic = "mtg.decks" })
        /\ run.cardEventCount
              = Cardinality({ i \in DOMAIN run.produced : run.produced[i].topic = "mtg.deck-cards" })
        /\ run.publishedCount <= Len(run.decks)
        /\ run.cardEventCount <= Cardinality(cardRecords(publishedDecks))
        \* at the end each deck was tried, and each card of a published deck
        /\ (run.pc = "exit") =>
              /\ run.flushed
              /\ \A d \in DOMAIN run.decks :
                    (<< d, 0 >> \in run.failed) # (d \in publishedDecks)
              /\ \A dc \in cardRecords(publishedDecks) :
                    (dc \in run.failed)
                       # (\E i \in DOMAIN run.produced : cardEventAt(i, dc[1], dc[2]))

\* The deck event of the first deck failed, the second deck and its card
\* were produced, and the run has ended.
C35_Witness ==
    /\ run.pc = "exit"
    /\ ~run.dryRun
    /\ << 1, 0 >> \in run.failed
    /\ 2 \in publishedDecks
    /\ run.publishedCount = 1
    /\ run.cardEventCount = 1

(***************************************************************************)
(* C36.  The stages of the MTGJSON ingestion job are independent and the   *)
(* job always flushes: a failed fetch skips only its stage and a failed    *)
(* Publish only its record, the stages run in the order sets, cards,       *)
(* prices, the producer's Flush is always reached, and the published       *)
(* counter of a stage is the number of its records whose Publish call      *)
(* returned no error.                                                      *)
(***************************************************************************)
returnedNil(s) == { k \in DOMAIN job.returned[s] : job.returned[s][k] }

C36_StagesIndependent ==
    /\ \A s \in DOMAIN Stages : job.published[s] = Cardinality(returnedNil(s))
    /\ Len(job.order) <= Len(Stages)
    /\ job.order = SubSeq(Stages, 1, Len(job.order))
    /\ \A s \in DOMAIN Stages :
          (job.fetched[s] = "error") => (job.returned[s] = <<>>)
    /\ (job.pc = "exit") =>
          /\ job.flushed
          /\ job.order = Stages
          /\ \A s \in DOMAIN Stages : job.fetched[s] \in {"ok", "error"}

\* The fetch of the sets failed, one of two cards could not be published,
\* both prices were published, and the job has flushed and ended.
C36_Witness ==
    /\ job.pc = "exit"
    /\ job.flushed
    /\ job.fetched = << "error", "ok", "ok" >>
    /\ job.returned[2] = << FALSE, TRUE >>
    /\ job.published = << 0, 1, 2 >>

====
